---- MODULE Spec2Model ----
(***************************************************************************)
(* Access-driven memory reconsolidation (dreaming-in-access-patterns).     *)
(*                                                                         *)
(* The model follows the four Python sources:                              *)
(*   access_logger.py    the Access Store (access_events, chunk_energy)    *)
(*   extract_sessions.py the Transcript Extractor (processed_sessions)     *)
(*   pipeline.py         the Energy Map and the Reconsolidation Engine     *)
(*   mirror.py           the Mirror Analyzer's reader                      *)
(*                                                                         *)
(* Conventions.                                                            *)
(*   - A Python string is a sequence of tokens, so that concatenation      *)
(*     (f-strings) is \o and str.startswith is a prefix test.              *)
(*   - A Python dict is a TLA+ function whose DOMAIN is the set of keys    *)
(*     present; dict.get(k, d) is Get(d_, k, d).                           *)
(*   - Scores are integers in tenths (0.5 is 5); float rounding of sums is *)
(*     not modelled.                                                       *)
(*   - Python None in a string slot is the marker None; a falsy timestamp  *)
(*     (None or 0) is 0.                                                   *)
(***************************************************************************)
EXTENDS Integers, Sequences, FiniteSets, TLC

VARIABLES
    access_events,       \* access.db: table access_events, in id order
    chunk_energy,        \* access.db: table chunk_energy, chunk_key -> row
    processed_sessions,  \* access.db: table processed_sessions, session_id -> row
    now,                 \* the wall clock read by time.time()
    calls,               \* number of direct log_event / CLI calls made so far
    sessions_dir,        \* SESSIONS_DIR: session_id -> transcript lines
    extractor,           \* the extract_sessions.py process
    hist,                \* history of the runs and of the environment (observations only)
    vmem,                \* vectordb/memory.db: chunks and chunk_embeddings
    metrics_db,          \* metrics.db: existence and reconsolidation_runs
    engine,              \* the pipeline.py process
    writer,              \* a log_event call in progress (its open transaction)
    reader               \* a reader process (mirror.load_access_data)

vars == <<access_events, chunk_energy, processed_sessions, now, calls,
          sessions_dir, extractor, hist, vmem, metrics_db, engine, writer, reader>>

storeVars == <<access_events, chunk_energy, processed_sessions>>

(***************************************************************************)
(* Bounds of the model.                                                    *)
(***************************************************************************)
MaxCalls == 2

Times == 1..3

None == "None"

(***************************************************************************)
(* Python helpers.                                                         *)
(***************************************************************************)
Get(d, k, default) == IF k \in DOMAIN d THEN d[k] ELSE default

StartsWith(s, p) == Len(s) >= Len(p) /\ SubSeq(s, 1, Len(p)) = p

Range(s) == {s[i] : i \in DOMAIN s}

SetMax(S) == CHOOSE x \in S : \A y \in S : y <= x

SetMin(S) == CHOOSE x \in S : \A y \in S : x <= y

RECURSIVE SumSeq(_)
SumSeq(s) == IF s = <<>> THEN 0 ELSE Head(s) + SumSeq(Tail(s))

(***************************************************************************)
(* access_logger.py: log_event                                             *)
(***************************************************************************)
DefaultScore == 5

DefaultTopScore == 0

Unknown == <<"?">>

\* f"{r.get('file', r.get('path', '?'))}:{r.get('lines', r.get('line', '?'))}"
ChunkKeyOf(r) ==
    Get(r, "file", Get(r, "path", Unknown)) \o <<":">> \o
    Get(r, "lines", Get(r, "line", Unknown))

\* score = r.get("score", 0.5)
ScoreOf(r) == Get(r, "score", DefaultScore)

\* max((r.get("score", 0) for r in results), default=0)
TopScoreOf(results) ==
    IF results = <<>> THEN 0
    ELSE SetMax({Get(results[i], "score", DefaultTopScore) : i \in DOMAIN results})

\* ts = timestamp or time.time()
TsOf(timestamp, clock) == IF timestamp = 0 THEN clock ELSE timestamp

\* the INSERT INTO access_events
EventRow(events, query, results, session_id, ts) ==
    [id |-> Len(events) + 1, timestamp |-> ts, session_id |-> session_id,
     query |-> query, results |-> results, n_results |-> Len(results),
     top_score |-> TopScoreOf(results)]

\* a slip: the UPDATE overwrites total_score instead of adding to it
UpdateRowOverwrite(row, score, ts) ==
    [row EXCEPT !.total_accesses = @ + 1,
                !.total_score = score,
                !.last_accessed = ts]

\* the UPDATE branch of the loop body
UpdateRow(row, score, ts) ==
    [row EXCEPT !.total_accesses = @ + 1,
                !.total_score = @ + score,
                !.last_accessed = ts]

\* the INSERT branch of the loop body
InsertRow(score, ts) ==
    [total_accesses |-> 1, total_score |-> score,
     last_accessed |-> ts, first_accessed |-> ts]

\* one iteration of "for r in results"
UpdateEnergy(energy, r, ts) ==
    LET key == ChunkKeyOf(r)
        score == ScoreOf(r)
    IN  IF key \in DOMAIN energy
        THEN [energy EXCEPT ![key] = UpdateRow(@, score, ts)]
        ELSE energy @@ (key :> InsertRow(score, ts))

RECURSIVE ApplyResults(_, _, _)
ApplyResults(energy, results, ts) ==
    IF results = <<>> THEN energy
    ELSE ApplyResults(UpdateEnergy(energy, Head(results), ts), Tail(results), ts)

\* the whole of log_event, committed: the store after the call
LogEventStore(events, energy, query, results, session_id, timestamp, clock) ==
    LET ts == TsOf(timestamp, clock)
    IN  [events |-> Append(events, EventRow(events, query, results, session_id, ts)),
         energy |-> ApplyResults(energy, results, ts)]

(***************************************************************************)
(* Inputs of direct log_event calls: result dicts as producers shape them  *)
(* (file/path, lines/line, with or without score).                         *)
(***************************************************************************)
ResultDicts ==
    { [file |-> <<"M.md">>, lines |-> <<"1">>, score |-> 9],
      [file |-> <<"M.md">>, lines |-> <<"1">>],
      [path |-> <<"sessions/", "foo">>, line |-> <<"3">>, score |-> 5],
      [score |-> 0] }

ResultLists ==
    {<<>>} \cup {<<r>> : r \in ResultDicts}
           \cup {<<r1, r2>> : r1 \in ResultDicts, r2 \in ResultDicts}

CallTimestamps == {0, 1, 2}

\* results-json arguments given to the log-event command
CmdResultLists ==
    { <<>>,
      << [file |-> <<"sessions/", "foo">>, lines |-> <<"3">>, score |-> 5] >>,
      << [file |-> <<"memory/", "bar.md">>, lines |-> <<"7">>, score |-> 9] >> }

\* log_event(query, results, session_id, timestamp) called directly
LogEvent(query, results, session_id, timestamp) ==
    /\ calls < MaxCalls
    /\ LET s == LogEventStore(access_events, chunk_energy, query, results,
                              session_id, timestamp, now)
       IN  /\ access_events' = s.events
           /\ chunk_energy' = s.energy
    /\ calls' = calls + 1
    /\ UNCHANGED <<processed_sessions, now, sessions_dir, extractor, hist,
                   vmem, metrics_db, engine, writer, reader>>

(***************************************************************************)
(* extract_sessions.py: transcripts.                                       *)
(* A transcript line is [json |-> FALSE] (json.loads raises) or            *)
(* [json |-> TRUE, obj |-> dict].  A message content is [list |-> blocks]  *)
(* or [str |-> text].  A text holding JSON is [json |-> TRUE, value |-> v],*)
(* any other text is [json |-> FALSE].  An ISO timestamp string is         *)
(* [iso |-> TRUE, epoch |-> t]; a string fromisoformat rejects is          *)
(* [iso |-> FALSE].                                                        *)
(***************************************************************************)
EmptyDict == <<>>

IsList(c) == "list" \in DOMAIN c

SessionsPrefix == <<"sessions/">>

\* the dict appended at lines 153-157
MapResult(r) ==
    [file |-> Get(r, "path", <<>>),
     lines |-> IF "startLine" \in DOMAIN r THEN <<ToString(r.startLine)>> ELSE <<>>,
     score |-> Get(r, "score", 0)]

\* "for r in parsed['results']" with the sessions/ filter (lines 146-157)
RECURSIVE MapResults(_)
MapResults(rs) ==
    IF rs = <<>> THEN <<>>
    ELSE IF StartsWith(Get(Head(rs), "path", <<>>), SessionsPrefix)
         THEN MapResults(Tail(rs))
         ELSE <<MapResult(Head(rs))>> \o MapResults(Tail(rs))

\* json.loads(text) and what follows, JSONDecodeError swallowed (lines 143-159)
ResultsOfText(text) ==
    IF ~text.json THEN <<>>
    ELSE IF "results" \in DOMAIN text.value
         THEN MapResults(text.value.results)
         ELSE <<>>

\* "for b2 in content2" (lines 138-159)
RECURSIVE ResultsOfBlocks(_)
ResultsOfBlocks(bs) ==
    IF bs = <<>> THEN <<>>
    ELSE (IF Get(Head(bs), "type", None) = "text"
          THEN ResultsOfText(Get(Head(bs), "text", [json |-> FALSE]))
          ELSE <<>>) \o ResultsOfBlocks(Tail(bs))

\* a slip: any toolResult record is taken, whatever its parentId
IsResultOfAnyParent(obj2, call_msg_id) ==
    Get(Get(obj2, "message", EmptyDict), "role", None) = "toolResult"

\* lines 132-136
IsResultOf(obj2, call_msg_id) ==
    /\ Get(obj2, "parentId", None) = call_msg_id
    /\ Get(Get(obj2, "message", EmptyDict), "role", None) = "toolResult"

\* "for obj2 in lines: ... break": the first matching toolResult record (lines 130-160)
FindResults(objs, call_msg_id) ==
    LET hits == {i \in DOMAIN objs : IsResultOf(objs[i], call_msg_id)}
    IN  IF hits = {} THEN <<>>
        ELSE LET content2 == Get(objs[SetMin(hits)].message, "content", [list |-> <<>>])
             IN  IF IsList(content2) THEN ResultsOfBlocks(content2.list) ELSE <<>>

\* lines 118-127: the timestamp handed to log_event; 0 stands for time.time()
TimestampOf(obj) ==
    IF "timestamp" \in DOMAIN obj /\ obj.timestamp.iso THEN obj.timestamp.epoch ELSE 0

IsSearchCall(block) ==
    /\ Get(block, "type", None) = "toolCall"
    /\ Get(block, "name", None) = "memory_search"
    /\ Get(Get(block, "arguments", EmptyDict), "query", "") # ""

\* "for block in content" (lines 108-164): the log_event calls of one record
RECURSIVE CallsOfBlocks(_, _, _)
CallsOfBlocks(objs, obj, bs) ==
    IF bs = <<>> THEN <<>>
    ELSE (IF IsSearchCall(Head(bs))
          THEN << [query |-> Head(bs).arguments.query,
                   results |-> FindResults(objs, Get(obj, "id", "")),
                   timestamp |-> TimestampOf(obj)] >>
          ELSE <<>>) \o CallsOfBlocks(objs, obj, Tail(bs))

\* "for obj in lines" (lines 99-164)
RECURSIVE CallsOfObjs(_, _)
CallsOfObjs(objs, rest) ==
    IF rest = <<>> THEN <<>>
    ELSE LET obj == Head(rest)
             content == Get(Get(obj, "message", EmptyDict), "content", [list |-> <<>>])
         IN  (IF IsList(content) THEN CallsOfBlocks(objs, obj, content.list) ELSE <<>>)
             \o CallsOfObjs(objs, Tail(rest))

\* lines 78-86: json.loads of every line; one JSONDecodeError returns 0
ParseLines(file) ==
    IF \A i \in DOMAIN file : file[i].json
    THEN [ok |-> TRUE, objs |-> [i \in DOMAIN file |-> file[i].obj]]
    ELSE [ok |-> FALSE, objs |-> <<>>]

\* a parsed line that is a JSON object (a dict); null, a number, a string or an
\* array parse as well but have no .get
IsObject(line) == line.json /\ "obj" \in DOMAIN line

\* lines 93-94: every line parsed, and obj.get on a value that is no dict raises
\* AttributeError, which nothing catches
ExtractRaises(file) ==
    /\ \A i \in DOMAIN file : file[i].json
    /\ \E i \in DOMAIN file : ~IsObject(file[i])

\* extract_session: the log_event calls it makes, in order
ExtractCalls(file) ==
    IF ExtractRaises(file) THEN <<>>
    ELSE LET p == ParseLines(file)
         IN  IF p.ok THEN CallsOfObjs(p.objs, p.objs) ELSE <<>>

(***************************************************************************)
(* Transcripts the sessions directory is drawn from.                       *)
(***************************************************************************)
CallLine(id, q, stamp) ==
    [json |-> TRUE,
     obj |-> [id |-> id, timestamp |-> stamp,
              message |-> [role |-> "assistant",
                           content |-> [list |-> << [type |-> "toolCall",
                                                     name |-> "memory_search",
                                                     arguments |-> [query |-> q]] >>]]]]

ResultLine(id, parent, text) ==
    [json |-> TRUE,
     obj |-> [id |-> id, parentId |-> parent,
              message |-> [role |-> "toolResult",
                           content |-> [list |-> << [type |-> "text", text |-> text] >>]]]]

BadLine == [json |-> FALSE]

\* the line "null": json.loads gives None
NullLine == [json |-> TRUE, value |-> "null"]

ChatLine ==
    [json |-> TRUE,
     obj |-> [id |-> "m1", message |-> [role |-> "user", content |-> [str |-> "hello"]]]]

FooBarText ==
    [json |-> TRUE,
     value |-> [results |-> << [path |-> <<"sessions/", "foo">>, startLine |-> 3, score |-> 5],
                               [path |-> <<"memory/", "bar.md">>, startLine |-> 7, score |-> 9] >>]]

BarText ==
    [json |-> TRUE,
     value |-> [results |-> << [path |-> <<"memory/", "bar.md">>, startLine |-> 7] >>]]

\* S5: a toolCall in record c1 and its toolResult
TPair == << CallLine("c1", "q1", [iso |-> TRUE, epoch |-> 2]),
            ResultLine("r1", "c1", FooBarText) >>

\* the same toolCall and result, followed by a line that is not JSON
TBadLine == << CallLine("c1", "q1", [iso |-> TRUE, epoch |-> 2]),
               ResultLine("r1", "c1", FooBarText),
               BadLine >>

\* an earlier call whose timestamp does not parse and whose result text is not JSON
TBadText == << CallLine("c2", "q2", [iso |-> FALSE]),
               ResultLine("r2", "c2", [json |-> FALSE]) >>

\* two calls, the first without any toolResult, the second dated 1
TTwo == << CallLine("c3", "q3", [iso |-> TRUE, epoch |-> 3]),
           CallLine("c4", "q1", [iso |-> TRUE, epoch |-> 1]),
           ResultLine("r4", "c4", BarText) >>

\* no memory_search at all
TQuiet == << ChatLine >>

\* a chat line, then a line that is JSON but no object
TNull == << ChatLine, NullLine >>

Transcripts == {TPair, TBadLine, TBadText, TTwo, TQuiet, TNull}

\* sorted(SESSIONS_DIR.glob("*.jsonl")): the file names in lexicographic order
SessionOrder == <<"s1", "s2">>

SessionIds == Range(SessionOrder)

(***************************************************************************)
(* extract_sessions.py: main                                               *)
(***************************************************************************)
MaxRuns == 2

MaxCmds == 1

\* get_processed_sessions
GetProcessedSessions(table) == DOMAIN table

\* a slip: the watermark row is never written
MarkProcessedDropped(table, session_id, events, clock) == table

\* mark_processed: INSERT OR REPLACE
MarkProcessed(table, session_id, events, clock) ==
    (session_id :> [processed_at |-> clock, events_extracted |-> events]) @@ table

\* a slip: the reprocess flag does not clear the set of sessions to skip
ProcessedAtStartKept(reprocess, table) == GetProcessedSessions(table)

\* line 177: processed = get_processed_sessions() if not reprocess else set()
ProcessedAtStart(reprocess, table) ==
    IF reprocess THEN {} ELSE GetProcessedSessions(table)

ExtractorIdle ==
    [pc |-> "idle", reprocess |-> FALSE, processed |-> {}, files |-> <<>>, idx |-> 0,
     pending |-> <<>>, count |-> 0, total_events |-> 0, new_sessions |-> 0]

HistInit ==
    [started |-> 0, completed |-> 0, reprocessed |-> FALSE, killed |-> 0, raised |-> 0,
     events0 |-> <<>>, energy0 |-> <<>>, reindexed |-> 0]

\* lines 170-180: the flags are read, the directory is listed, the watermark is loaded
MainStart(reprocess) ==
    /\ extractor.pc = "idle"
    /\ hist.started < MaxRuns
    /\ extractor' = [ExtractorIdle EXCEPT
                       !.pc = "loop",
                       !.reprocess = reprocess,
                       !.files = SelectSeq(SessionOrder, LAMBDA s : s \in DOMAIN sessions_dir),
                       !.processed = ProcessedAtStart(reprocess, processed_sessions),
                       !.idx = 1]
    /\ hist' = [hist EXCEPT !.started = @ + 1,
                            !.reprocessed = @ \/ reprocess,
                            !.events0 = access_events,
                            !.energy0 = chunk_energy]
    /\ UNCHANGED <<storeVars, now, calls, sessions_dir, vmem, metrics_db, engine,
                   writer, reader>>

\* lines 183-185: a session already recorded is skipped
MainSkip ==
    /\ extractor.pc = "loop"
    /\ extractor.idx <= Len(extractor.files)
    /\ extractor.files[extractor.idx] \in extractor.processed
    /\ extractor' = [extractor EXCEPT !.idx = @ + 1]
    /\ UNCHANGED <<storeVars, now, calls, sessions_dir, hist, vmem, metrics_db,
                   engine, writer, reader>>

\* line 187 and lines 78-160 for each call: the transcript is read and paired
MainExtract ==
    /\ extractor.pc = "loop"
    /\ extractor.idx <= Len(extractor.files)
    /\ extractor.files[extractor.idx] \notin extractor.processed
    /\ ~ExtractRaises(sessions_dir[extractor.files[extractor.idx]])
    /\ extractor' = [extractor EXCEPT
                       !.pc = "extract",
                       !.pending = ExtractCalls(sessions_dir[extractor.files[extractor.idx]]),
                       !.count = 0]
    /\ UNCHANGED <<storeVars, now, calls, sessions_dir, hist, vmem, metrics_db,
                   engine, writer, reader>>

\* line 187 and lines 93-94: extract_session raises AttributeError before any
\* log_event; main catches nothing and the process ends with a traceback
MainRaise ==
    /\ extractor.pc = "loop"
    /\ extractor.idx <= Len(extractor.files)
    /\ extractor.files[extractor.idx] \notin extractor.processed
    /\ ExtractRaises(sessions_dir[extractor.files[extractor.idx]])
    /\ extractor' = ExtractorIdle
    /\ hist' = [hist EXCEPT !.raised = @ + 1]
    /\ UNCHANGED <<storeVars, now, calls, sessions_dir, vmem, metrics_db, engine,
                   writer, reader>>

\* lines 162-164: one log_event call of extract_session, committed
ExtractLog ==
    /\ extractor.pc = "extract"
    /\ extractor.pending # <<>>
    /\ LET c == Head(extractor.pending)
           s == LogEventStore(access_events, chunk_energy, c.query, c.results,
                              extractor.files[extractor.idx], c.timestamp, now)
       IN  /\ access_events' = s.events
           /\ chunk_energy' = s.energy
    /\ extractor' = [extractor EXCEPT !.pending = Tail(@), !.count = @ + 1]
    /\ UNCHANGED <<processed_sessions, now, calls, sessions_dir, hist, vmem,
                   metrics_db, engine, writer, reader>>

\* lines 166, 188-192: extract_session returns, the session is marked
MainMark ==
    /\ extractor.pc = "extract"
    /\ extractor.pending = <<>>
    /\ processed_sessions' = MarkProcessed(processed_sessions,
                                           extractor.files[extractor.idx],
                                           extractor.count, now)
    /\ extractor' = [extractor EXCEPT
                       !.pc = "loop",
                       !.idx = @ + 1,
                       !.new_sessions = IF extractor.count > 0 THEN @ + 1 ELSE @,
                       !.total_events = IF extractor.count > 0 THEN @ + extractor.count ELSE @]
    /\ UNCHANGED <<access_events, chunk_energy, now, calls, sessions_dir, hist,
                   vmem, metrics_db, engine, writer, reader>>

\* lines 194-199: the loop is over, the summary is printed
MainReport ==
    /\ extractor.pc = "loop"
    /\ extractor.idx > Len(extractor.files)
    /\ extractor' = [extractor EXCEPT !.pc = "done"]
    /\ UNCHANGED <<storeVars, now, calls, sessions_dir, hist, vmem, metrics_db,
                   engine, writer, reader>>

\* the process exits after a complete run
MainExit ==
    /\ extractor.pc = "done"
    /\ extractor' = ExtractorIdle
    /\ hist' = [hist EXCEPT !.completed = @ + 1]
    /\ UNCHANGED <<storeVars, now, calls, sessions_dir, vmem, metrics_db, engine,
                   writer, reader>>

\* process termination in the middle of a run: what was committed stays
MainKill ==
    /\ extractor.pc \in {"loop", "extract"}
    /\ extractor' = ExtractorIdle
    /\ hist' = [hist EXCEPT !.killed = @ + 1]
    /\ UNCHANGED <<storeVars, now, calls, sessions_dir, vmem, metrics_db, engine,
                   writer, reader>>

\* access_logger.py lines 266-273: the log-event command, log_event(query, results).
\* The store assumes a single writer: the command runs while no Extractor does.
CmdLogEvent(query, results) ==
    /\ extractor.pc = "idle"
    /\ calls < MaxCmds
    /\ LET s == LogEventStore(access_events, chunk_energy, query, results, None, 0, now)
       IN  /\ access_events' = s.events
           /\ chunk_energy' = s.energy
    /\ calls' = calls + 1
    /\ UNCHANGED <<processed_sessions, now, sessions_dir, extractor, hist,
                   vmem, metrics_db, engine, writer, reader>>

\* time passes
Tick ==
    /\ now + 1 \in Times
    /\ now' = now + 1
    /\ UNCHANGED <<storeVars, calls, sessions_dir, extractor, hist, vmem, metrics_db,
                   engine, writer, reader>>

(***************************************************************************)
(* pipeline.py: the Energy Map.                                            *)
(* Timestamps count half-lives (168 h), so that the decay                  *)
(* exp(-ln 2 * age / half_life) is the exact power of two 2^(-age).  An    *)
(* energy is the fraction n/d with d > 0; all values of one map share d.   *)
(***************************************************************************)
RECURSIVE Pow2(_)
Pow2(n) == IF n <= 0 THEN 1 ELSE 2 * Pow2(n - 1)

AgeSpan == SetMax(Times)

\* the unit of a raw energy: scores are tenths, decays are 2^-AgeSpan-ths
RawUnit == 2 * DefaultScore * Pow2(AgeSpan)

\* a slip: the recency decay is left out of the energy
RawEnergyNoDecay(row, clock) ==
    LET m == IF row.total_accesses > 1 THEN row.total_accesses ELSE 1
    IN  ((row.total_score * row.total_accesses) \div m) * Pow2(AgeSpan)

\* line 109-112: age, decay and e of one row, in RawUnit-ths
RawEnergy(row, clock) ==
    LET age == clock - (IF row.last_accessed = 0 THEN clock ELSE row.last_accessed)
        m == IF row.total_accesses > 1 THEN row.total_accesses ELSE 1
    IN  ((row.total_score * row.total_accesses) \div m) * Pow2(AgeSpan - age)

\* a slip: the raw energies are returned without the division by their maximum
LoadAccessEnergyRaw(rows, clock) ==
    LET keys == {k \in DOMAIN rows : rows[k].total_accesses > 0}
    IN  IF keys = {} THEN <<>>
        ELSE [k \in keys |-> [n |-> RawEnergy(rows[k], clock), d |-> RawUnit]]

\* load_access_energy: {chunk_key: energy}, normalised by the maximum if positive
LoadAccessEnergy(rows, clock) ==
    LET keys == {k \in DOMAIN rows : rows[k].total_accesses > 0}
        max_e == SetMax({RawEnergy(rows[k], clock) : k \in keys})
    IN  IF keys = {} THEN <<>>
        ELSE [k \in keys |->
                [n |-> RawEnergy(rows[k], clock),
                 d |-> IF max_e > 0 THEN max_e ELSE RawUnit]]

(***************************************************************************)
(* pipeline.py: the Vector Store as the Engine sees it.                    *)
(* An embedding is a sequence of fixed-point numbers, FixedOne standing    *)
(* for 1.0: the float32 cast of the write-back is a rounding to that grid. *)
(***************************************************************************)
FixedOne == 64

\* round-to-nearest of num/den (den > 0) onto the grid
RoundDiv(num, den) == (2 * num + den) \div (2 * den)

\* line 165
VmemChunkKey(chunk) == chunk.file_path \o <<":">> \o <<ToString(chunk.line_start)>>

\* lines 152-155: "SELECT embedding ... WHERE chunk_id = ?" .fetchone()
EmbeddingRows(vm, chunk_id) == SelectSeq(vm.chunk_embeddings, LAMBDA r : r.chunk_id = chunk_id)

\* lines 150-167: the chunks that have an embedding row, in id order
RECURSIVE ChunkData(_, _)
ChunkData(vm, cs) ==
    IF cs = <<>> THEN <<>>
    ELSE LET rows == EmbeddingRows(vm, Head(cs).id)
         IN  (IF rows # <<>>
              THEN << [id |-> Head(cs).id, file_path |-> Head(cs).file_path,
                       content |-> Head(cs).content, line_start |-> Head(cs).line_start,
                       chunk_key |-> VmemChunkKey(Head(cs)),
                       embedding |-> Head(rows).embedding] >>
              ELSE <<>>) \o ChunkData(vm, Tail(cs))

\* load_vmem_chunks: chunk_data, each entry carrying its row of E
LoadVmemChunks(vm) == IF ~vm.exists THEN <<>> ELSE ChunkData(vm, vm.chunks)

(***************************************************************************)
(* pipeline.py: reconsolidate.                                             *)
(* The orthonormal DCT-II along axis 0, truncated to its first k rows and  *)
(* inverted, is a projection P(N,k).  Its entries are rational, multiples  *)
(* of 1/60, in the cases the model runs: P(N,1) averages the rows (N up to *)
(* 6), P(N,N) is the identity and P(3,2) adds the outer product of         *)
(* (1,0,-1)/sqrt(2) with itself.                                           *)
(***************************************************************************)
PDen == 60

P60(N, k, i, j) ==
    IF k >= N THEN (IF i = j THEN PDen ELSE 0)
    ELSE IF k = 1 THEN PDen \div N
    ELSE \* N = 3, k = 2
         20 + (IF i = 2 \/ j = 2 THEN 0 ELSE IF i = j THEN 30 ELSE -30)

\* the cases above
Representable(N, k) == k >= N \/ (k = 1 /\ N <= 6) \/ (N = 3 /\ k = 2)

\* line 220: k = max(1, int(N * keep_ratio)), keep_ratio = n/d
KCoefficients(N, keep_ratio) ==
    LET t == (N * keep_ratio.n) \div keep_ratio.d
    IN  IF t > 1 THEN t ELSE 1

\* lines 203-209: the energy of chunk i, 0.0 when its key is not in the map
EnergyAt(energy_map, chunk) ==
    IF chunk.chunk_key \in DOMAIN energy_map THEN energy_map[chunk.chunk_key].n ELSE 0

\* lines 204-209
NWithEnergy(chunks, energy_map) ==
    Cardinality({i \in DOMAIN chunks : EnergyAt(energy_map, chunks[i]) > 0})

\* the denominator shared by the energies of a non-empty map
EnergyDen(energy_map) == energy_map[CHOOSE k \in DOMAIN energy_map : TRUE].d

\* a slip: the energy does not enter the weight
WeightFlat(chunks, energy_map, ps, i) == ps.d * EnergyDen(energy_map)

\* line 227: weight_i = 1 + promotion_strength * energy_i, times the common
\* denominator promotion_strength.d * EnergyDen
Weight(chunks, energy_map, ps, i) ==
    ps.d * EnergyDen(energy_map) + ps.n * EnergyAt(energy_map, chunks[i])

RECURSIVE SumTo(_, _)
SumTo(f, n) == IF n = 0 THEN 0 ELSE f[n] + SumTo(f, n - 1)

\* lines 227-234 and 318: row i of R_promoted, cast to the storage grid
PromotedRow(chunks, energy_map, k, ps, i) ==
    LET N == Len(chunks)
        D == Len(chunks[i].embedding)
    IN  [c \in 1..D |->
            RoundDiv(SumTo([j \in 1..N |-> P60(N, k, i, j)
                                            * Weight(chunks, energy_map, ps, j)
                                            * chunks[j].embedding[c]], N),
                     PDen * Weight(chunks, energy_map, ps, i))]

(***************************************************************************)
(* The similarities of lines 237-245.  A cosine is computed in units of    *)
(* 1/CosOne from the two directions scaled to a common grid, so that       *)
(* proportional vectors give exactly CosOne; the 1e-10 of the denominator  *)
(* only matters for a zero vector, whose cosine is 0.                      *)
(***************************************************************************)
CosOne == 10000

Abs(x) == IF x < 0 THEN -x ELSE x

Dot(u, v) == SumTo([c \in DOMAIN u |-> u[c] * v[c]], Len(u))

MaxAbs(v) == SetMax({Abs(v[c]) : c \in DOMAIN v})

\* the integer square root, by bisection
RECURSIVE ISqrtIn(_, _, _)
ISqrtIn(x, lo, hi) ==
    IF lo >= hi THEN lo
    ELSE LET mid == (lo + hi + 1) \div 2
         IN  IF mid * mid <= x THEN ISqrtIn(x, mid, hi) ELSE ISqrtIn(x, lo, mid - 1)

ISqrt(x) == ISqrtIn(x, 0, 46340)

\* the vector scaled so that its largest component is 512
Direction(v) ==
    LET m == MaxAbs(v)
    IN  IF m = 0 THEN v
        ELSE IF m <= 4000000 THEN [c \in DOMAIN v |-> (v[c] * 512) \div m]
        ELSE [c \in DOMAIN v |-> ((v[c] \div 64) * 512) \div (m \div 64)]

\* np.dot(a, b) / (norm(a) * norm(b) + 1e-10)
Cosine(a, b) ==
    LET f == Direction(a)
        u == Direction(b)
        sf == ISqrt(Dot(f, f) * 1024)
        su == ISqrt(Dot(u, u) * 1024)
    IN  IF sf = 0 \/ su = 0 THEN 0
        ELSE (((Dot(f, u) * 1024) \div sf) * CosOne) \div su

\* lines 221-224: row i of R_standard, times PDen
StandardVec(chunks, k, i) ==
    LET N == Len(chunks)
    IN  [c \in DOMAIN chunks[i].embedding |->
            SumTo([j \in 1..N |-> P60(N, k, i, j) * chunks[j].embedding[c]], N)]

\* lines 227-234: row i of R_promoted, times PDen and the weight of i
PromotedVec(chunks, energy_map, k, ps, i) ==
    LET N == Len(chunks)
    IN  [c \in DOMAIN chunks[i].embedding |->
            SumTo([j \in 1..N |-> P60(N, k, i, j)
                                   * Weight(chunks, energy_map, ps, j)
                                   * chunks[j].embedding[c]], N)]

\* lines 237-245: delta[i] = sims_after[i] - sims_before[i]
Delta(chunks, energy_map, k, ps, i) ==
    Cosine(chunks[i].embedding, PromotedVec(chunks, energy_map, k, ps, i))
    - Cosine(chunks[i].embedding, StandardVec(chunks, k, i))

Deltas(chunks, energy_map, k, ps) ==
    [i \in DOMAIN chunks |-> Delta(chunks, energy_map, k, ps, i)]

\* np.argsort(delta): the indices by increasing delta (equal deltas by index)
Argsort(delta) ==
    LET place(i) == 1 + Cardinality({j \in DOMAIN delta :
                          delta[j] < delta[i] \/ (delta[j] = delta[i] /\ j < i)})
    IN  [r \in DOMAIN delta |-> CHOOSE i \in DOMAIN delta : place(i) = r]

TopPromoted == 10

TopDemoted == 5

DeltaThreshold == 10

PreviewLen == 80

Min(a, b) == IF a < b THEN a ELSE b

\* s[:n]
Take(s, n) == SubSeq(s, 1, Min(n, Len(s)))

\* line 248: np.argsort(delta)[-10:][::-1]
PromotedIdx(delta) ==
    LET a == Argsort(delta)
        N == Len(a)
    IN  [r \in 1..Min(TopPromoted, N) |-> a[N + 1 - r]]

\* line 249: np.argsort(delta)[:5]
DemotedIdx(delta) == Take(Argsort(delta), TopDemoted)

\* lines 262-267, 271-276: one entry of the lists of movers
Mover(chunks, energy_map, delta, i) ==
    [chunk_key |-> chunks[i].chunk_key,
     content |-> Take(chunks[i].content, PreviewLen),
     energy |-> [n |-> EnergyAt(energy_map, chunks[i]), d |-> EnergyDen(energy_map)],
     delta |-> delta[i]]

\* lines 261-269: result["promoted"]
PromotedList(chunks, energy_map, delta) ==
    LET idx == SelectSeq(PromotedIdx(delta), LAMBDA i : delta[i] > DeltaThreshold)
    IN  [r \in DOMAIN idx |-> Mover(chunks, energy_map, delta, idx[r])]

\* lines 270-278: result["demoted"]
DemotedList(chunks, energy_map, delta) ==
    LET idx == SelectSeq(DemotedIdx(delta), LAMBDA i : delta[i] < -DeltaThreshold)
    IN  [r \in DOMAIN idx |-> Mover(chunks, energy_map, delta, idx[r])]

\* a slip: the overlap check is missing
NoOverlapIgnored(n_with_energy) == FALSE

\* line 211
NoOverlap(n_with_energy) == n_with_energy = 0

\* a slip: the write-back is not guarded by dry_run
AfterTransformAlwaysWrite(dry_run) == "write"

\* line 281: what follows the transform
AfterTransform(dry_run) == IF ~dry_run THEN "write" ELSE "done"

\* lines 187-279: the result and, unless it is a no-op, the matrix R_promoted
Reconsolidate(chunks, energy_map, keep_ratio, ps, dry_run) ==
    LET N == Len(chunks)
        n_with_energy == NWithEnergy(chunks, energy_map)
        k == KCoefficients(N, keep_ratio)
    IN  IF N = 0
        THEN [next |-> "done", R |-> <<>>,
              result |-> [error |-> "no chunks in vmem", action |-> "none"]]
        ELSE IF DOMAIN energy_map = {}
        THEN [next |-> "done", R |-> <<>>,
              result |-> [error |-> "no access events yet", action |-> "none",
                          n_chunks |-> N]]
        ELSE IF NoOverlap(n_with_energy)
        THEN [next |-> "done", R |-> <<>>,
              result |-> [action |-> "none", n_chunks |-> N,
                          access_events |-> Cardinality(DOMAIN energy_map)]]
        ELSE LET delta == Deltas(chunks, energy_map, k, ps)
             IN  [next |-> AfterTransform(dry_run),
                  R |-> [i \in 1..N |-> PromotedRow(chunks, energy_map, k, ps, i)],
                  result |-> [action |-> IF ~dry_run THEN "reconsolidated" ELSE "dry_run",
                              n_chunks |-> N, n_with_energy |-> n_with_energy,
                              k_coefficients |-> k, keep_ratio |-> keep_ratio,
                              promotion_strength |-> ps,
                              delta |-> delta,
                              promoted |-> PromotedList(chunks, energy_map, delta),
                              demoted |-> DemotedList(chunks, energy_map, delta)]]

\* a slip: the INSERT without the DELETE
WriteEmbeddingInsertOnly(rows, chunk_id, emb) ==
    Append(rows, [chunk_id |-> chunk_id, embedding |-> emb])

\* _write_embeddings, one chunk: DELETE the rows of the chunk id, INSERT the new one
WriteEmbedding(rows, chunk_id, emb) ==
    Append(SelectSeq(rows, LAMBDA r : r.chunk_id # chunk_id),
           [chunk_id |-> chunk_id, embedding |-> emb])

\* _write_embeddings: the loop, committed at its end
RECURSIVE WriteEmbeddings(_, _, _, _)
WriteEmbeddings(rows, chunks, R, i) ==
    IF i > Len(chunks) THEN rows
    ELSE WriteEmbeddings(WriteEmbedding(rows, chunks[i].id, R[i]), chunks, R, i + 1)

\* lines 317-327 interrupted: the rows as the connection sees them after i chunks
\* were rewritten and, when deleted_next, after the DELETE of the next one
PartialWrite(rows, chunks, R, i, deleted_next) ==
    LET written == WriteEmbeddings(rows, SubSeq(chunks, 1, i), R, 1)
    IN  IF deleted_next
        THEN SelectSeq(written, LAMBDA r : r.chunk_id # chunks[i + 1].id)
        ELSE written

\* the first DELETE opened a transaction that db.commit() (line 329) never closed:
\* SQLite rolls it back, the committed rows remain
AfterTermination(committed, uncommitted) == committed

DetailPromoted == 5

DetailDemoted == 3

\* line 300: json.dumps(result["promoted"][:5] + result["demoted"][:3])
Details(result) ==
    Take(result.promoted, DetailPromoted) \o Take(result.demoted, DetailDemoted)

\* lines 286-304: the row inserted into reconsolidation_runs
MetricsRow(result, energy_map, clock) ==
    [timestamp |-> clock, n_chunks |-> result.n_chunks,
     n_with_energy |-> result.n_with_energy,
     k_coefficients |-> result.k_coefficients, keep_ratio |-> result.keep_ratio,
     promotion_strength |-> result.promotion_strength,
     max_promoted_delta |-> SetMax(Range(result.delta)),
     max_demoted_delta |-> SetMin(Range(result.delta)),
     total_access_events |-> Cardinality({k \in DOMAIN energy_map : energy_map[k].n > 0}),
     details |-> Details(result)]

MaxEngineRuns == 2

MaxReindex == 1

EngineIdle ==
    [pc |-> "idle", dry_run |-> FALSE, chunks |-> <<>>, energy_map |-> <<>>,
     R |-> <<>>, result |-> <<>>, runs |-> 0,
     vmem0 |-> <<>>, energy0 |-> <<>>, listed |-> 0, listed_at_write |-> 0,
     metrics0 |-> 0]

KeepRatios == { [n |-> 15, d |-> 100], [n |-> 34, d |-> 100], [n |-> 67, d |-> 100] }

PromotionStrengths == { [n |-> 3, d |-> 2] }

\* lines 187-279: the stores are read and the transform is computed.  vmem0,
\* energy0, listed and metrics0 record what the run saw (observations only).
\* The parameters are those for which the model has the projection.
EngineLoad(keep_ratio, ps, dry_run) ==
    /\ engine.pc = "idle"
    /\ engine.runs < MaxEngineRuns
    /\ Representable(Len(LoadVmemChunks(vmem)),
                     KCoefficients(Len(LoadVmemChunks(vmem)), keep_ratio))
    /\ LET chunks == LoadVmemChunks(vmem)
           energy_map == LoadAccessEnergy(chunk_energy, now)
           r == Reconsolidate(chunks, energy_map, keep_ratio, ps, dry_run)
       IN  engine' = [engine EXCEPT
                        !.pc = r.next, !.dry_run = dry_run, !.chunks = chunks,
                        !.energy_map = energy_map, !.R = r.R, !.result = r.result,
                        !.runs = @ + 1, !.vmem0 = vmem, !.energy0 = chunk_energy,
                        !.listed = Len(vmem.chunks),
                        !.listed_at_write = Len(vmem.chunks),
                        !.metrics0 = Len(metrics_db.reconsolidation_runs)]
    /\ UNCHANGED <<storeVars, now, calls, sessions_dir, extractor, hist, vmem,
                   metrics_db, writer, reader>>

\* line 283: _write_embeddings(chunks, R_promoted)
EngineWrite ==
    /\ engine.pc = "write"
    /\ vmem' = [vmem EXCEPT
                  !.exists = TRUE,
                  !.chunk_embeddings = WriteEmbeddings(@, engine.chunks, engine.R, 1)]
    /\ engine' = [engine EXCEPT !.pc = "metrics", !.listed_at_write = Len(vmem.chunks)]
    /\ UNCHANGED <<storeVars, now, calls, sessions_dir, extractor, hist,
                   metrics_db, writer, reader>>

\* the process is terminated inside the loop of _write_embeddings
EngineKillWrite ==
    /\ engine.pc = "write"
    /\ \E i \in 0..(Len(engine.chunks) - 1), deleted_next \in BOOLEAN :
          vmem' = [vmem EXCEPT
                     !.exists = TRUE,
                     !.chunk_embeddings =
                         AfterTermination(@, PartialWrite(@, engine.chunks, engine.R,
                                                          i, deleted_next))]
    /\ engine' = [EngineIdle EXCEPT !.runs = engine.runs]
    /\ UNCHANGED <<storeVars, now, calls, sessions_dir, extractor, hist,
                   metrics_db, writer, reader>>

\* lines 286-304: init_metrics_db and the INSERT INTO reconsolidation_runs
EngineMetrics ==
    /\ engine.pc = "metrics"
    /\ metrics_db' = [exists |-> TRUE,
                      reconsolidation_runs |->
                          Append(metrics_db.reconsolidation_runs,
                                 MetricsRow(engine.result, engine.energy_map, now))]
    /\ engine' = [engine EXCEPT !.pc = "done"]
    /\ UNCHANGED <<storeVars, now, calls, sessions_dir, extractor, hist, vmem,
                   writer, reader>>

\* lines 306, 377-379: the result is returned and printed, the process exits
EngineExit ==
    /\ engine.pc = "done"
    /\ engine' = [EngineIdle EXCEPT !.runs = engine.runs]
    /\ UNCHANGED <<storeVars, now, calls, sessions_dir, extractor, hist, vmem,
                   metrics_db, writer, reader>>

(***************************************************************************)
(* The Vector Store's owner (external): it indexes and drops chunks.       *)
(***************************************************************************)
Chunk(id, file, line) ==
    [id |-> id, file_path |-> <<file>>, content |-> <<"text of ", file>>,
     line_start |-> line, line_end |-> line + 1]

\* a chunk whose content is longer than a preview: 81 characters
LongChunk(id, file, line) ==
    [Chunk(id, file, line) EXCEPT !.content = [n \in 1..(PreviewLen + 1) |-> "x"]]

UnitVector(i) == [c \in 1..3 |-> IF c = i THEN FixedOne ELSE 0]

Embedded(id, i) == [chunk_id |-> id, embedding |-> UnitVector(i)]

\* the corpora the store is drawn from: absent, empty, S2's single chunk,
\* S3's three chunks, three chunks of which one has no embedding row, and six
\* chunks sharing three directions, two of them with a long content
Corpora ==
    { [exists |-> FALSE, chunks |-> <<>>, chunk_embeddings |-> <<>>],
      [exists |-> TRUE, chunks |-> <<>>, chunk_embeddings |-> <<>>],
      [exists |-> TRUE, chunks |-> <<Chunk(1, "M.md", 1)>>,
       chunk_embeddings |-> <<Embedded(1, 1)>>],
      [exists |-> TRUE,
       chunks |-> <<Chunk(1, "A", 1), Chunk(2, "B", 1), Chunk(3, "C", 1)>>,
       chunk_embeddings |-> <<Embedded(1, 1), Embedded(2, 2), Embedded(3, 3)>>],
      [exists |-> TRUE,
       chunks |-> <<Chunk(1, "A", 1), Chunk(2, "B", 1), Chunk(3, "M.md", 1)>>,
       chunk_embeddings |-> <<Embedded(1, 1), Embedded(3, 2)>>],
      [exists |-> TRUE,
       chunks |-> <<LongChunk(1, "A", 1), LongChunk(2, "B", 1), Chunk(3, "C", 1),
                    Chunk(4, "D", 1), Chunk(5, "E", 1), Chunk(6, "F", 1)>>,
       chunk_embeddings |-> <<Embedded(1, 1), Embedded(2, 2), Embedded(3, 3),
                              Embedded(4, 2), Embedded(5, 3), Embedded(6, 2)>>] }

\* a chunk is indexed: the next id, with its embedding
VmemAdd ==
    /\ vmem.exists
    /\ Len(vmem.chunks) < 3
    /\ hist.reindexed < MaxReindex
    /\ LET id == IF vmem.chunks = <<>> THEN 1
                 ELSE vmem.chunks[Len(vmem.chunks)].id + 1
       IN  vmem' = [vmem EXCEPT
                      !.chunks = Append(@, Chunk(id, "N", 1)),
                      !.chunk_embeddings = Append(@, Embedded(id, 3))]
    /\ hist' = [hist EXCEPT !.reindexed = @ + 1]
    /\ UNCHANGED <<storeVars, now, calls, sessions_dir, extractor, metrics_db,
                   engine, writer, reader>>

\* the last chunk is dropped, with its embedding rows
VmemRemove ==
    /\ vmem.chunks # <<>>
    /\ hist.reindexed < MaxReindex
    /\ LET last == vmem.chunks[Len(vmem.chunks)]
       IN  vmem' = [vmem EXCEPT
                      !.chunks = SubSeq(@, 1, Len(@) - 1),
                      !.chunk_embeddings = SelectSeq(@, LAMBDA r : r.chunk_id # last.id)]
    /\ hist' = [hist EXCEPT !.reindexed = @ + 1]
    /\ UNCHANGED <<storeVars, now, calls, sessions_dir, extractor, metrics_db,
                   engine, writer, reader>>

(***************************************************************************)
(* log_event step by step, and a reader beside it.                         *)
(* The connection opens a transaction at the first INSERT; until           *)
(* db.commit() the writes are the writer's own (events, energy below) and  *)
(* readers see the committed tables.  A killed writer's transaction is     *)
(* rolled back.  mirror.load_access_data issues two SELECTs outside any    *)
(* transaction: each sees what is committed when it runs.                  *)
(***************************************************************************)
WriterIdle ==
    [pc |-> "idle", ts |-> 0, todo |-> <<>>, events |-> <<>>, energy |-> <<>>]

ReaderIdle == [pc |-> "idle", cutoff |-> 0, events |-> <<>>, chunks |-> <<>>, out |-> <<>>]

\* mirror.py line 42: cutoff = time.time() - days * 86400, days = 14 (two half-lives)
WindowDays == 14

HalfLifeDays == 7

Cutoff(clock, days) == clock - days \div HalfLifeDays

\* mirror.py lines 44-48: WHERE timestamp > cutoff ORDER BY timestamp
RECURSIVE SortByTimestamp(_)
SortByTimestamp(evs) ==
    IF evs = <<>> THEN <<>>
    ELSE LET t == SetMin({evs[i].timestamp : i \in DOMAIN evs})
         IN  SelectSeq(evs, LAMBDA e : e.timestamp = t)
             \o SortByTimestamp(SelectSeq(evs, LAMBDA e : e.timestamp # t))

RecentEvents(events, cutoff) ==
    SortByTimestamp(SelectSeq(events, LAMBDA e : e.timestamp > cutoff))

\* access_logger.py lines 64-73: the transaction opens with the INSERT of the event
WriterBegin(query, results, timestamp) ==
    /\ writer.pc = "idle"
    /\ calls < MaxCalls
    /\ LET ts == TsOf(timestamp, now)
       IN  writer' = [pc |-> "tx", ts |-> ts, todo |-> results,
                      events |-> Append(access_events,
                                        EventRow(access_events, query, results, None, ts)),
                      energy |-> chunk_energy]
    /\ calls' = calls + 1
    /\ UNCHANGED <<storeVars, now, sessions_dir, extractor, hist, vmem, metrics_db,
                   engine, reader>>

\* access_logger.py lines 76-96: one iteration of the loop, inside the transaction
WriterUpdate ==
    /\ writer.pc = "tx"
    /\ writer.todo # <<>>
    /\ writer' = [writer EXCEPT
                    !.energy = UpdateEnergy(@, Head(writer.todo), writer.ts),
                    !.todo = Tail(@)]
    /\ UNCHANGED <<storeVars, now, calls, sessions_dir, extractor, hist, vmem,
                   metrics_db, engine, reader>>

\* access_logger.py lines 98-99: db.commit()
WriterCommit ==
    /\ writer.pc = "tx"
    /\ writer.todo = <<>>
    /\ access_events' = writer.events
    /\ chunk_energy' = writer.energy
    /\ writer' = WriterIdle
    /\ UNCHANGED <<processed_sessions, now, calls, sessions_dir, extractor, hist,
                   vmem, metrics_db, engine, reader>>

\* the writer process is terminated before its commit: the transaction is lost
WriterKill ==
    /\ writer.pc = "tx"
    /\ writer' = WriterIdle
    /\ UNCHANGED <<storeVars, now, calls, sessions_dir, extractor, hist, vmem,
                   metrics_db, engine, reader>>

\* mirror.py lines 41-48: the first SELECT, on access_events
ReadEvents ==
    /\ reader.pc = "idle"
    /\ LET cutoff == Cutoff(now, WindowDays)
       IN  reader' = [reader EXCEPT !.pc = "chunks", !.cutoff = cutoff,
                                    !.events = RecentEvents(access_events, cutoff)]
    /\ UNCHANGED <<storeVars, now, calls, sessions_dir, extractor, hist, vmem,
                   metrics_db, engine, writer>>

\* mirror.py lines 50-55: the second SELECT, on chunk_energy
ReadChunks ==
    /\ reader.pc = "chunks"
    /\ reader' = [reader EXCEPT !.pc = "done", !.chunks = chunk_energy]
    /\ UNCHANGED <<storeVars, now, calls, sessions_dir, extractor, hist, vmem,
                   metrics_db, engine, writer>>

\* mirror.py lines 57-67: the data is returned
ReadReturn ==
    /\ reader.pc = "done"
    /\ reader' = ReaderIdle
    /\ UNCHANGED <<storeVars, now, calls, sessions_dir, extractor, hist, vmem,
                   metrics_db, engine, writer>>

(***************************************************************************)
(* mirror.py: the analyses and generate_mirror.                            *)
(* A query is the sequence of its words (str.split), two queries being the *)
(* same string when they are the same sequence.                            *)
(***************************************************************************)
\* str.lower on the words the model uses
LowerOf == [Alpha |-> "alpha", Beta |-> "beta", Hi |-> "hi"]

Lower(w) == IF w \in DOMAIN LowerOf THEN LowerOf[w] ELSE w

\* the elements of s, each once, in the order of their first occurrence
RECURSIVE Distinct(_)
Distinct(s) ==
    IF s = <<>> THEN <<>>
    ELSE LET init == Distinct(SubSeq(s, 1, Len(s) - 1))
             last == s[Len(s)]
         IN  IF last \in Range(init) THEN init ELSE Append(init, last)

\* sorted(..., reverse=True) and Counter.most_common: by decreasing count, equal
\* counts in the order of s
RECURSIVE SortDesc(_, _)
SortDesc(s, count) ==
    IF s = <<>> THEN <<>>
    ELSE LET top == SetMax({count[s[i]] : i \in DOMAIN s})
         IN  SelectSeq(s, LAMBDA x : count[x] = top)
             \o SortDesc(SelectSeq(s, LAMBDA x : count[x] # top), count)

\* the rows of chunk_energy as a list, in a fixed order (SQLite's order among rows
\* of equal total_accesses is not specified)
RECURSIVE ListOf(_)
ListOf(S) ==
    IF S = {} THEN <<>>
    ELSE LET x == CHOOSE y \in S : TRUE IN <<x>> \o ListOf(S \ {x})

HotTopN == 10

HotShown == 8

\* analyze_hot_cold and lines 216-232: the hot entries, by total_accesses
AnalyzeHotCold(data) ==
    LET sorted_chunks == SortDesc(ListOf(DOMAIN data.chunks),
                                  [k \in DOMAIN data.chunks |->
                                      data.chunks[k].total_accesses])
        hot == Take(Take(sorted_chunks, HotTopN), HotShown)
    IN  [r \in DOMAIN hot |-> [key |-> hot[r],
                               accesses |-> data.chunks[hot[r]].total_accesses]]

\* line 108: sid = event["session"] or "unknown"
SessionOrUnknown(e) == IF e.session_id = None THEN "unknown" ELSE e.session_id

\* line 116: " ".join(q.lower().split()[:3])
FrictionKey(q) == [i \in 1..Min(3, Len(q)) |-> Lower(q[i])]

\* a query seen once taken for a repeated one
RepeatedOnce(count) == count >= 1

\* line 119: if count >= 2
RepeatedInSession(count) == count >= 2

FrictionTopN == 10

FrictionShown == 5

\* analyze_friction and lines 240-242
AnalyzeFriction(data) ==
    LET evs == data.events
        sids == Distinct([i \in DOMAIN evs |-> SessionOrUnknown(evs[i])])
        queries(sid) == SelectSeq(evs, LAMBDA e : SessionOrUnknown(e) = sid)
        keys(sid) == Distinct([i \in DOMAIN queries(sid) |-> FrictionKey(queries(sid)[i].query)])
        seen(sid, key) ==
            Len(SelectSeq(queries(sid), LAMBDA e : FrictionKey(e.query) = key))
        repeated(sid) == SelectSeq(keys(sid), LAMBDA key : RepeatedInSession(seen(sid, key)))
        patterns == Distinct([i \in DOMAIN evs |-> FrictionKey(evs[i].query)])
        total(p) == SumSeq([n \in DOMAIN sids |->
                               IF p \in Range(repeated(sids[n])) THEN seen(sids[n], p) ELSE 0])
        friction == SelectSeq(patterns, LAMBDA p : total(p) > 0)
        pattern_counts == [p \in Range(friction) |-> total(p)]
        common == Take(Take(SortDesc(friction, pattern_counts), FrictionTopN),
                       FrictionShown)
    IN  [r \in DOMAIN common |-> [pattern |-> common[r], total_repeats |-> total(common[r])]]

\* lines 285-289: the stats line
StatsOf(data) ==
    [ev |-> Len(data.events),
     uq |-> Cardinality({data.events[i].query : i \in DOMAIN data.events}),
     sess |-> Cardinality({data.events[i].session_id : i \in DOMAIN data.events} \ {None}),
     days |-> WindowDays]

\* generate_mirror: the lines of the summary the model keeps
GenerateMirror(data) ==
    IF data.events = <<>> THEN [none |-> TRUE]
    ELSE [none |-> FALSE,
          hot |-> AnalyzeHotCold(data),
          friction |-> AnalyzeFriction(data),
          stats |-> StatsOf(data)]

\* mirror.py lines 203-289: the data loaded is analysed
MirrorAnalyze ==
    /\ reader.pc = "done"
    /\ reader' = [reader EXCEPT
                    !.pc = "mirror",
                    !.out = GenerateMirror([events |-> reader.events,
                                            chunks |-> reader.chunks])]
    /\ UNCHANGED <<storeVars, now, calls, sessions_dir, extractor, hist, vmem,
                   metrics_db, engine, writer>>

\* mirror.py lines 291-307: the summary is written and printed, the process exits
MirrorWrite ==
    /\ reader.pc = "mirror"
    /\ reader' = ReaderIdle
    /\ UNCHANGED <<storeVars, now, calls, sessions_dir, extractor, hist, vmem,
                   metrics_db, engine, writer>>

VmemInit == [exists |-> FALSE, chunks |-> <<>>, chunk_embeddings |-> <<>>]

MetricsInit == [exists |-> FALSE, reconsolidation_runs |-> <<>>]

(***************************************************************************)
(* Initial states.                                                         *)
(***************************************************************************)
\* an empty access.db, every process idle
InitStore ==
    /\ access_events = <<>>
    /\ chunk_energy = <<>>
    /\ processed_sessions = <<>>
    /\ calls = 0
    /\ extractor = ExtractorIdle
    /\ hist = HistInit
    /\ metrics_db = MetricsInit
    /\ engine = EngineIdle
    /\ writer = WriterIdle
    /\ reader = ReaderIdle

(***************************************************************************)
(* Spec: any sequence of log_event calls on an empty store.                *)
(***************************************************************************)
Init ==
    /\ InitStore
    /\ now = 1
    /\ sessions_dir = <<>>
    /\ vmem = VmemInit

Next ==
    \/ \E results \in ResultLists, timestamp \in CallTimestamps :
          LogEvent("hi", results, None, timestamp)
    \/ Tick

Spec == Init /\ [][Next]_vars

(***************************************************************************)
(* SpecExtract: Extractor runs (with or without --all, complete or killed) *)
(* over a fixed transcript directory, and the log-event command.           *)
(***************************************************************************)
InitExtract ==
    /\ InitStore
    /\ now = 2
    /\ sessions_dir \in [SessionIds -> Transcripts]
    /\ vmem = VmemInit

NextExtract ==
    \/ \E reprocess \in BOOLEAN : MainStart(reprocess)
    \/ MainSkip
    \/ MainExtract
    \/ MainRaise
    \/ ExtractLog
    \/ MainMark
    \/ MainReport
    \/ MainExit
    \/ MainKill
    \/ \E results \in CmdResultLists : CmdLogEvent("hi", results)

SpecExtract == InitExtract /\ [][NextExtract]_vars

(***************************************************************************)
(* SpecEngine: reconsolidation runs (real or dry) over a Vector Store its  *)
(* owner may reindex meanwhile, with log_event calls filling the Access    *)
(* Store.                                                                  *)
(***************************************************************************)
Hit(file, line, score) == [file |-> <<file>>, lines |-> <<line>>, score |-> score]

Call(results, timestamp) == [query |-> "hi", results |-> results, timestamp |-> timestamp]

\* the access logs the store is drawn from, each a sequence of log_event calls:
\* none; one hot chunk; two events over three keys, one result without a score;
\* only a zero score; only a key no corpus holds; two equal rows of which one is
\* dated after the reader's clock; two equal rows of score 0 beside a scored one;
\* S3's ten events naming A:1 only, the last of them without a score
AccessLogs ==
    { <<>>,
      << Call(<<Hit("A", "1", 9)>>, 1) >>,
      << Call(<<Hit("M.md", "1", 9), [file |-> <<"B">>, lines |-> <<"1">>]>>, 1),
         Call(<<Hit("A", "1", 7)>>, 2) >>,
      << Call(<<Hit("C", "1", 0)>>, 1) >>,
      << Call(<<Hit("X", "9", 9)>>, 2) >>,
      << Call(<<Hit("A", "1", 9)>>, 3), Call(<<Hit("B", "1", 9)>>, 1) >>,
      << Call(<<Hit("A", "1", 0)>>, 1), Call(<<Hit("B", "1", 0)>>, 2),
         Call(<<Hit("C", "1", 7)>>, 2) >>,
      [n \in 1..10 |-> IF n < 10 THEN Call(<<Hit("A", "1", 9)>>, 1)
                       ELSE Call(<< [file |-> <<"A">>, lines |-> <<"1">>] >>, 2)] }

\* the store after the log_event calls of a log, made on an empty store
RECURSIVE Replay(_, _)
Replay(store, log) ==
    IF log = <<>> THEN store
    ELSE Replay(LogEventStore(store.events, store.energy, Head(log).query,
                              Head(log).results, Get(Head(log), "session_id", None),
                              Head(log).timestamp, 0),
                Tail(log))

InitEngine ==
    /\ \E log \in AccessLogs :
         LET s == Replay([events |-> <<>>, energy |-> <<>>], log)
         IN  /\ access_events = s.events
             /\ chunk_energy = s.energy
    /\ processed_sessions = <<>>
    /\ calls = 0
    /\ extractor = ExtractorIdle
    /\ hist = HistInit
    /\ metrics_db = MetricsInit
    /\ engine = EngineIdle
    /\ writer = WriterIdle
    /\ reader = ReaderIdle
    /\ now = 2
    /\ sessions_dir = <<>>
    /\ vmem \in Corpora

NextEngine ==
    \/ \E keep_ratio \in KeepRatios, ps \in PromotionStrengths, dry_run \in BOOLEAN :
          EngineLoad(keep_ratio, ps, dry_run)
    \/ EngineWrite
    \/ EngineKillWrite
    \/ EngineMetrics
    \/ EngineExit
    \/ VmemAdd
    \/ VmemRemove
    \/ Tick

SpecEngine == InitEngine /\ [][NextEngine]_vars

(***************************************************************************)
(* SpecReaders: one writer running log_event step by step (and possibly    *)
(* killed), one reader running load_access_data beside it.                 *)
(***************************************************************************)
WriterResultLists ==
    { <<>>,
      << [file |-> <<"M.md">>, lines |-> <<"1">>, score |-> 9] >>,
      << [file |-> <<"M.md">>, lines |-> <<"1">>],
         [file |-> <<"A">>, lines |-> <<"1">>, score |-> 5] >> }

InitReaders ==
    /\ InitStore
    /\ now = 3
    /\ sessions_dir = <<>>
    /\ vmem = VmemInit

NextReaders ==
    \/ \E results \in WriterResultLists, timestamp \in CallTimestamps :
          WriterBegin("hi", results, timestamp)
    \/ WriterUpdate
    \/ WriterCommit
    \/ WriterKill
    \/ ReadEvents
    \/ ReadChunks
    \/ ReadReturn

SpecReaders == InitReaders /\ [][NextReaders]_vars

(***************************************************************************)
(* SpecMirror: generate_mirror over an Access Store filled earlier, at     *)
(* different times of the clock.                                           *)
(***************************************************************************)
Search(session_id, query, results, timestamp) ==
    [query |-> query, results |-> results, session_id |-> session_id,
     timestamp |-> timestamp]

AlphaBetaGamma == <<"alpha", "beta", "gamma">>

\* the logs the store is drawn from
\*   S4: two sessions, each with "alpha beta gamma" twice
\*   the same first three words in other cases and with a fourth word; a lone query
\*   an old event naming M.md:1 twice, a recent one naming A:1
\*   two events of no session with the same query
\*   no event
\*   a pattern repeated twice in one session and three times in another, and a
\*   second pattern
\*   a query of one word, twice
\*   three keys accessed 3, 1 and 2 times
\*   six patterns, each repeated in one session
\*   old events only
\*   the same query with and without a session
Repeated(session_id, word) ==
    << Search(session_id, <<word>>, <<>>, 2), Search(session_id, <<word>>, <<>>, 2) >>

MirrorLogs ==
    { << Search("s1", AlphaBetaGamma, <<>>, 2), Search("s1", AlphaBetaGamma, <<>>, 2),
         Search("s2", AlphaBetaGamma, <<>>, 2), Search("s2", AlphaBetaGamma, <<>>, 2) >>,
      << Search("s1", <<"Alpha", "beta", "gamma", "one">>, <<Hit("A", "1", 9)>>, 2),
         Search("s1", <<"alpha", "Beta", "gamma", "two">>, <<>>, 2),
         Search("s2", AlphaBetaGamma, <<>>, 2),
         Search("s2", <<"delta">>, <<>>, 2) >>,
      << Search("s1", <<"old">>, <<Hit("M.md", "1", 9), Hit("M.md", "1", 5)>>, 1),
         Search("s1", <<"new">>, <<Hit("A", "1", 9)>>, 2) >>,
      << Search(None, <<"hi">>, <<>>, 2), Search(None, <<"hi">>, <<>>, 2) >>,
      << >>,
      << Search("s1", AlphaBetaGamma, <<>>, 1), Search("s1", AlphaBetaGamma, <<>>, 2),
         Search("s2", <<"delta">>, <<>>, 2), Search("s2", AlphaBetaGamma, <<>>, 2),
         Search("s2", <<"delta">>, <<>>, 2), Search("s2", AlphaBetaGamma, <<>>, 2),
         Search("s2", AlphaBetaGamma, <<>>, 2) >>,
      << Search("s1", <<"hi">>, <<>>, 2), Search("s1", <<"hi">>, <<>>, 2) >>,
      << Search("s1", <<"q">>, <<Hit("A", "1", 9), Hit("C", "1", 9)>>, 1),
         Search("s1", <<"q">>, <<Hit("A", "1", 9), Hit("B", "1", 9)>>, 2),
         Search("s2", <<"r">>, <<Hit("A", "1", 9), Hit("C", "1", 9)>>, 2) >>,
      Repeated("s1", "a") \o Repeated("s1", "b") \o Repeated("s1", "c")
         \o Repeated("s2", "d") \o Repeated("s2", "e") \o Repeated("s2", "f"),
      << Search("s1", <<"old">>, <<Hit("A", "1", 9)>>, 1),
         Search("s2", <<"old">>, <<Hit("B", "1", 9)>>, 1) >>,
      << Search(None, <<"hi">>, <<Hit("B", "1", 9)>>, 2),
         Search("s1", <<"hi">>, <<Hit("B", "1", 9)>>, 2),
         Search("s1", <<"Hi">>, <<Hit("A", "1", 9)>>, 2) >> }

InitMirror ==
    /\ \E log \in MirrorLogs :
         LET s == Replay([events |-> <<>>, energy |-> <<>>], log)
         IN  /\ access_events = s.events
             /\ chunk_energy = s.energy
    /\ processed_sessions = <<>>
    /\ calls = 0
    /\ extractor = ExtractorIdle
    /\ hist = HistInit
    /\ metrics_db = MetricsInit
    /\ engine = EngineIdle
    /\ writer = WriterIdle
    /\ reader = ReaderIdle
    /\ now = 2
    /\ sessions_dir = <<>>
    /\ vmem = VmemInit

NextMirror ==
    \/ ReadEvents
    \/ ReadChunks
    \/ MirrorAnalyze
    \/ MirrorWrite
    \/ Tick

SpecMirror == InitMirror /\ [][NextMirror]_vars

(***************************************************************************)
(* What the stored events say about each chunk key.                        *)
(***************************************************************************)
RECURSIVE AllResults(_)
AllResults(events) ==
    IF events = <<>> THEN <<>>
    ELSE Head(events).results \o AllResults(Tail(events))

\* the result records of the stored events that name chunk key k
Naming(k) == SelectSeq(AllResults(access_events), LAMBDA r : ChunkKeyOf(r) = k)

NamedKeys == {ChunkKeyOf(r) : r \in Range(AllResults(access_events))}

RECURSIVE SumScores(_)
SumScores(rs) == IF rs = <<>> THEN 0 ELSE ScoreOf(Head(rs)) + SumScores(Tail(rs))

\* the timestamps of the stored events one of whose results names k
TimesNaming(k) ==
    {access_events[i].timestamp : i \in {j \in DOMAIN access_events :
        \E r \in Range(access_events[j].results) : ChunkKeyOf(r) = k}}

(***************************************************************************)
(* C1. Energy accumulation law: after any sequence of log_event calls on   *)
(* an empty store, a chunk key has a chunk_energy row exactly when some    *)
(* stored result record names it, the row's total_accesses is the number   *)
(* of those records and its total_score the sum of their scores.           *)
(***************************************************************************)
C1_EnergyAccumulation ==
    /\ DOMAIN chunk_energy = NamedKeys
    /\ \A k \in DOMAIN chunk_energy :
         /\ chunk_energy[k].total_accesses = Len(Naming(k))
         /\ chunk_energy[k].total_score = SumScores(Naming(k))

\* two events, one key named three times (with and without a score), another key too
C1_Witness ==
    /\ Len(access_events) = 2
    /\ Cardinality(DOMAIN chunk_energy) >= 2
    /\ \E k \in DOMAIN chunk_energy :
         /\ chunk_energy[k].total_accesses = 3
         /\ chunk_energy[k].total_score = 23

(***************************************************************************)
(* C2. After any sequence of log_event calls with arbitrary timestamps,    *)
(* every chunk_energy row has first_accessed <= last_accessed, and they    *)
(* are the minimum and the maximum timestamp of the events naming the key. *)
(* The code overwrites last_accessed with the timestamp of the latest      *)
(* call, so an older event logged later breaks it.                         *)
(***************************************************************************)
C2_FirstLastBracket ==
    \A k \in DOMAIN chunk_energy :
        /\ chunk_energy[k].first_accessed <= chunk_energy[k].last_accessed
        /\ chunk_energy[k].first_accessed = SetMin(TimesNaming(k))
        /\ chunk_energy[k].last_accessed = SetMax(TimesNaming(k))

(***************************************************************************)
(* What the stored events say about each session.                          *)
(***************************************************************************)
EventsOfSession(s) == SelectSeq(access_events, LAMBDA e : e.session_id = s)

\* the transcript without its lines that are not JSON
WellFormedLines(file) == SelectSeq(file, LAMBDA l : l.json)

(***************************************************************************)
(* C4. Idempotent extraction: an Extractor run without the reprocess flag  *)
(* that completes after an earlier run completed over the same directory   *)
(* reports zero extracted events and leaves access_events and every        *)
(* chunk_energy row as they were when it started.                          *)
(***************************************************************************)
C4_SecondRunIdempotent ==
    (extractor.pc = "done" /\ ~extractor.reprocess /\ hist.completed >= 1)
    => /\ extractor.total_events = 0
       /\ extractor.new_sessions = 0
       /\ access_events = hist.events0
       /\ chunk_energy = hist.energy0

\* the second of two complete plain runs is over, and the first had logged events
C4_Witness ==
    /\ extractor.pc = "done"
    /\ ~hist.reprocessed
    /\ hist.killed = 0
    /\ hist.completed = 1
    /\ calls = 0
    /\ Len(access_events) >= 2
    /\ DOMAIN chunk_energy # {}

(***************************************************************************)
(* C5. Extract-once-per-session: as long as no run used the reprocess      *)
(* flag, the store holds for each session at most the events one           *)
(* extraction of its transcript yields, also when runs were killed.  A run *)
(* killed after a session's log_event calls and before its mark_processed  *)
(* leaves the session unrecorded, and the next run logs its events again.  *)
(***************************************************************************)
C5_ExtractOnce ==
    ~hist.reprocessed
    => \A s \in DOMAIN sessions_dir :
         Len(EventsOfSession(s)) <= Len(ExtractCalls(sessions_dir[s]))

(***************************************************************************)
(* C6. Session-path filter: no stored access event holds a result whose    *)
(* file begins with "sessions/", and no chunk_energy key begins with       *)
(* "sessions/", whatever wrote to the store.  log_event itself stores what *)
(* it is given: only extract_session filters.                              *)
(***************************************************************************)
C6_NoSessionsPath ==
    /\ \A r \in Range(AllResults(access_events)) :
         ~StartsWith(Get(r, "file", Get(r, "path", Unknown)), SessionsPrefix)
    /\ \A k \in DOMAIN chunk_energy : ~StartsWith(k, SessionsPrefix)

(***************************************************************************)
(* C10. A line that is not JSON never aborts its session: once a session   *)
(* is recorded as processed, the memory_search calls of its well-formed    *)
(* lines have been logged.  extract_session returns 0 at the first         *)
(* JSONDecodeError, before any call is looked at.                          *)
(***************************************************************************)
C10_MalformedLineSkipped ==
    \A s \in DOMAIN processed_sessions :
        Len(EventsOfSession(s)) >= Len(ExtractCalls(WellFormedLines(sessions_dir[s])))

\* every line of the transcript is a JSON object
WellFormedTranscript(file) == \A i \in DOMAIN file : IsObject(file[i])

(***************************************************************************)
(* C11. Extractor errors are isolated per session: once a run has ended    *)
(* (none was killed), every session with a well-formed transcript is       *)
(* recorded as processed and its memory_search calls are logged, wherever  *)
(* a malformed transcript stands in the processing order.  A transcript    *)
(* line that is JSON but no object makes extract_session raise             *)
(* AttributeError, which ends the run: the sessions after it in name order *)
(* are never reached.                                                      *)
(***************************************************************************)
C11_ErrorsIsolated ==
    (extractor.pc = "idle" /\ hist.started >= 1 /\ hist.killed = 0)
    => \A s \in DOMAIN sessions_dir :
         WellFormedTranscript(sessions_dir[s])
         => /\ s \in DOMAIN processed_sessions
            /\ Len(EventsOfSession(s)) >= Len(ExtractCalls(sessions_dir[s]))

(***************************************************************************)
(* The pairing rule, stated on the transcript.                             *)
(***************************************************************************)
\* the blocks of record i of the transcript (none when its content is a string)
BlocksOf(file, i) ==
    LET content == Get(Get(file[i].obj, "message", EmptyDict), "content", [list |-> <<>>])
    IN  IF IsList(content) THEN content.list ELSE <<>>

\* the memory_search toolCall blocks with a non-empty query: <<record, block>>
ToolCallsOf(file) ==
    {<<i, b>> : i \in DOMAIN file, b \in 1..3} \cap
    {p \in (DOMAIN file) \X (1..3) :
        p[2] \in DOMAIN BlocksOf(file, p[1]) /\ IsSearchCall(BlocksOf(file, p[1])[p[2]])}

\* the place of toolCall p in transcript order
PlaceOf(file, p) ==
    1 + Cardinality({q \in ToolCallsOf(file) :
                        q[1] < p[1] \/ (q[1] = p[1] /\ q[2] < p[2])})

\* the toolResult records whose parentId is the id of record i
ResultRecordsOf(file, i) ==
    {j \in DOMAIN file :
        /\ "parentId" \in DOMAIN file[j].obj
        /\ "id" \in DOMAIN file[i].obj
        /\ file[j].obj.parentId = file[i].obj.id
        /\ Get(Get(file[j].obj, "message", EmptyDict), "role", None) = "toolResult"}

\* every result the text blocks of record j carry, in order
RECURSIVE CarriedBy(_)
CarriedBy(bs) ==
    IF bs = <<>> THEN <<>>
    ELSE LET b == Head(bs)
         IN  (IF Get(b, "type", None) = "text" /\ "text" \in DOMAIN b /\ b.text.json
                 /\ "results" \in DOMAIN b.text.value
              THEN b.text.value.results ELSE <<>>) \o CarriedBy(Tail(bs))

\* those results minus the sessions/ paths, as result records
PairedResults(file, j) ==
    LET kept == SelectSeq(CarriedBy(BlocksOf(file, j)),
                          LAMBDA r : ~StartsWith(Get(r, "path", <<>>), SessionsPrefix))
    IN  [n \in DOMAIN kept |-> MapResult(kept[n])]

(***************************************************************************)
(* C12. Pairing rule: for a session extracted once from a transcript whose *)
(* lines are all JSON objects, the store holds exactly one event per       *)
(* memory_search toolCall block with a non-empty query, in transcript      *)
(* order; the event's results are the results, minus sessions/ paths, of a *)
(* toolResult record whose parentId is the id of the record carrying the   *)
(* toolCall, and are empty when there is no such record.  The transcript   *)
(* of S5 yields one event with the single result memory/bar.md.            *)
(***************************************************************************)
C12_PairingRule ==
    (~hist.reprocessed /\ hist.killed = 0)
    => \A s \in DOMAIN processed_sessions :
         LET file == sessions_dir[s]
             evs == EventsOfSession(s)
         IN  WellFormedTranscript(file)
             => /\ Len(evs) = Cardinality(ToolCallsOf(file))
                /\ \A p \in ToolCallsOf(file) :
                     LET e == evs[PlaceOf(file, p)]
                         rec == ResultRecordsOf(file, p[1])
                     IN  /\ e.query = BlocksOf(file, p[1])[p[2]].arguments.query
                         /\ rec = {} => e.results = <<>>
                         /\ rec # {} => \E j \in rec : e.results = PairedResults(file, j)
                /\ file = TPair
                   => /\ Len(evs) = 1
                      /\ Len(evs[1].results) = 1
                      /\ evs[1].results[1].file = <<"memory/", "bar.md">>

\* the transcript of S5 and the transcript with an unanswered call have both been
\* extracted: one event with one result, and two events of which the first is empty
C12_Witness ==
    /\ ~hist.reprocessed /\ hist.killed = 0
    /\ \E s, t \in DOMAIN processed_sessions :
         /\ sessions_dir[s] = TPair
         /\ Len(EventsOfSession(s)) = 1
         /\ Len(EventsOfSession(s)[1].results) = 1
         /\ sessions_dir[t] = TTwo
         /\ Len(EventsOfSession(t)) = 2
         /\ EventsOfSession(t)[1].results = <<>>
         /\ Len(EventsOfSession(t)[2].results) = 1

C14_DefaultedScores ==
    /\ \A i \in DOMAIN access_events :
         LET e == access_events[i]
         IN  e.top_score = IF e.results = <<>> THEN 0
                           ELSE SetMax({ScoreOf(e.results[n]) : n \in DOMAIN e.results})
    /\ \A r \in Range(AllResults(access_events)) :
         (Get(r, "file", Unknown) \o <<":">> \o Get(r, "lines", Unknown))
             \in DOMAIN chunk_energy
    /\ \A k \in DOMAIN chunk_energy :
         chunk_energy[k].total_score = SumScores(Naming(k))

(***************************************************************************)
(* What one reconsolidation run saw and did.                               *)
(***************************************************************************)
\* the run has executed its write-back
WroteBack == engine.pc \in {"metrics", "done"} /\ engine.result.action = "reconsolidated"

\* the stores as the run e read them make one of the no-op cases: no corpus,
\* no chunk energy at all, or no chunk of the corpus whose key has positive energy
NoOpCase(e) ==
    \/ ~e.vmem0.exists
    \/ e.vmem0.chunks = <<>>
    \/ DOMAIN e.energy0 = {}
    \/ \A i \in DOMAIN e.vmem0.chunks :
         LET key == VmemChunkKey(e.vmem0.chunks[i])
         IN  key \notin DOMAIN e.energy0 \/ e.energy0[key].total_score <= 0

\* the row counts toward the energy: it was accessed and its scores add up to
\* something positive
ScoredRow(row) == row.total_accesses > 0 /\ row.total_score > 0

\* two rows equal in total_accesses and total_score, the first accessed earlier
OlderTwin(rows, k1, k2) ==
    /\ rows[k1].total_accesses = rows[k2].total_accesses
    /\ rows[k1].total_score = rows[k2].total_score
    /\ rows[k1].last_accessed < rows[k2].last_accessed

C16_DecayMonotoneAnyScore ==
    engine.pc # "idle"
    => \A k1, k2 \in DOMAIN engine.energy_map :
         OlderTwin(engine.energy0, k1, k2)
         => engine.energy_map[k1].n * engine.energy_map[k2].d
                < engine.energy_map[k2].n * engine.energy_map[k1].d

(***************************************************************************)
(* C16, amended. Decay monotonicity for total_score > 0: of two rows equal *)
(* in total_accesses and in a positive total_score, the one accessed later *)
(* has strictly higher energy.                                             *)
(***************************************************************************)
C16_DecayMonotone ==
    engine.pc # "idle"
    => \A k1, k2 \in DOMAIN engine.energy_map :
         (OlderTwin(engine.energy0, k1, k2) /\ engine.energy0[k1].total_score > 0)
         => engine.energy_map[k1].n * engine.energy_map[k2].d
                < engine.energy_map[k2].n * engine.energy_map[k1].d

\* a run read two rows of equal counts and positive score, accessed at different times
C16_Witness ==
    /\ engine.pc # "idle"
    /\ \E k1, k2 \in DOMAIN engine.energy_map :
         /\ OlderTwin(engine.energy0, k1, k2)
         /\ engine.energy0[k1].total_score > 0
         /\ engine.energy_map[k1].n > 0
         /\ engine.energy_map[k1].n < engine.energy_map[k2].n

(***************************************************************************)
(* C17. A completed real run that reached the transform (the store not     *)
(* reindexed meanwhile) has inserted exactly one reconsolidation_runs row, *)
(* carrying its k_coefficients, keep_ratio and promotion_strength; the     *)
(* row's details list the promoted rows (delta > 0.001), up to 10, and the *)
(* demoted rows (delta < -0.001), up to 5, each with a content preview of  *)
(* at most 80 characters; and the run's embeddings are in the Vector       *)
(* Store.  The code stores promoted[:5] + demoted[:3].                     *)
(***************************************************************************)
C17_MetricsRow ==
    (engine.pc = "done" /\ engine.result.action = "reconsolidated" /\ hist.reindexed = 0)
    => LET rows == metrics_db.reconsolidation_runs
           row == rows[Len(rows)]
           N == Len(engine.chunks)
           delta == Deltas(engine.chunks, engine.energy_map, row.k_coefficients,
                           row.promotion_strength)
           nProm == Cardinality({i \in 1..N : delta[i] > DeltaThreshold})
           nDem == Cardinality({i \in 1..N : delta[i] < -DeltaThreshold})
           det == row.details
       IN  /\ Len(rows) = engine.metrics0 + 1
           /\ row.k_coefficients = KCoefficients(N, row.keep_ratio)
           /\ row.keep_ratio \in KeepRatios
           /\ row.promotion_strength \in PromotionStrengths
           /\ Cardinality({r \in DOMAIN det : det[r].delta > DeltaThreshold})
                  = Min(TopPromoted, nProm)
           /\ Cardinality({r \in DOMAIN det : det[r].delta < -DeltaThreshold})
                  = Min(TopDemoted, nDem)
           /\ \A r \in DOMAIN det :
                /\ Len(det[r].content) <= PreviewLen
                /\ \E i \in 1..N : /\ det[r].chunk_key = engine.chunks[i].chunk_key
                                    /\ det[r].delta = delta[i]
           /\ \A i \in 1..N :
                EmbeddingRows(vmem, engine.chunks[i].id)
                    = << [chunk_id |-> engine.chunks[i].id, embedding |-> engine.R[i]] >>

\* S3: the run read three chunks A:1, B:1, C:1 holding distinct unit vectors, the
\* store holds ten events naming A:1 only, and the parameters are 0.34 and 1.5
PromotionCase ==
    /\ engine.pc # "idle"
    /\ [i \in DOMAIN engine.chunks |-> engine.chunks[i].chunk_key]
          = << <<"A", ":", "1">>, <<"B", ":", "1">>, <<"C", ":", "1">> >>
    /\ \A i \in DOMAIN engine.chunks : \E c \in 1..3 : engine.chunks[i].embedding = UnitVector(c)
    /\ \A i, j \in DOMAIN engine.chunks :
         i # j => engine.chunks[i].embedding # engine.chunks[j].embedding
    /\ Len(access_events) = 10
    /\ \A r \in Range(AllResults(access_events)) : ChunkKeyOf(r) = <<"A", ":", "1">>
    /\ \A n \in DOMAIN access_events : access_events[n].results # <<>>
    /\ "keep_ratio" \in DOMAIN engine.result
    /\ engine.result.keep_ratio = [n |-> 34, d |-> 100]
    /\ engine.result.promotion_strength = [n |-> 3, d |-> 2]

C3_AbortOnCountChange ==
    WroteBack => engine.listed_at_write = engine.listed

(***************************************************************************)
(* C7. Dry-run purity: no step of a reconsolidation run with dry_run set   *)
(* changes the Vector Store (chunks, embedding rows) or the metrics store  *)
(* (its existence, its reconsolidation_runs).                              *)
(***************************************************************************)
C7_DryRunPure ==
    [][ (engine' # engine /\ (engine.dry_run \/ engine'.dry_run))
        => (vmem' = vmem /\ metrics_db' = metrics_db) ]_vars

\* a dry run over a corpus with energy went through the transform and returned
C7_Witness ==
    /\ engine.pc = "done"
    /\ engine.dry_run
    /\ engine.result.action = "dry_run"
    /\ engine.R # <<>>
    /\ engine.R # [i \in DOMAIN engine.chunks |-> engine.chunks[i].embedding]

(***************************************************************************)
(* C9. No-op cases: when the run read an absent or empty corpus, no chunk  *)
(* energy at all, or no corpus chunk key with positive energy, it returns  *)
(* action "none" right after reading and none of its steps changes the     *)
(* Vector Store or the metrics store, dry_run or not.                      *)
(***************************************************************************)
C9_NoOpWritesNothing ==
    [][ /\ (engine' # engine /\ engine.pc # "idle" /\ NoOpCase(engine))
           => (vmem' = vmem /\ metrics_db' = metrics_db)
        /\ (engine' # engine /\ engine'.pc # "idle" /\ NoOpCase(engine'))
           => /\ vmem' = vmem
              /\ metrics_db' = metrics_db
              /\ engine'.pc = "done"
              /\ engine'.result.action = "none" ]_vars

\* a real run found energy and chunks but no overlap, and returned "none"
C9_Witness ==
    /\ engine.pc = "done"
    /\ ~engine.dry_run
    /\ engine.vmem0.chunks # <<>>
    /\ DOMAIN engine.energy0 # {}
    /\ NoOpCase(engine)
    /\ engine.result.action = "none"

(***************************************************************************)
(* What a reader saw.                                                      *)
(***************************************************************************)
\* chunk_energy as the events evs alone make it
RECURSIVE EnergyOfEvents(_, _)
EnergyOfEvents(energy, evs) ==
    IF evs = <<>> THEN energy
    ELSE EnergyOfEvents(ApplyResults(energy, Head(evs).results, Head(evs).timestamp),
                        Tail(evs))

(***************************************************************************)
(* C8. Atomicity towards readers: what a reader returns is the store at    *)
(* one snapshot point n: the events of the window among the first n        *)
(* committed events, and the chunk_energy those n events make; no event    *)
(* without its contributions, no contribution without its event.           *)
(* load_access_data reads access_events and chunk_energy in two            *)
(* statements, and a log_event committing between them is in the second    *)
(* only.                                                                   *)
(***************************************************************************)
C8_ReaderSnapshot ==
    reader.pc = "done"
    => \E n \in 0..Len(access_events) :
         /\ reader.events = RecentEvents(SubSeq(access_events, 1, n), reader.cutoff)
         /\ reader.chunks = EnergyOfEvents(<<>>, SubSeq(access_events, 1, n))

(***************************************************************************)
(* Properties of the mirror (SpecMirror).                                  *)
(***************************************************************************)
\* the Mirror has analysed the events it loaded
Mirrored == reader.pc = "mirror" /\ ~reader.out.none

\* the loaded events of one session whose query has the given first three words
\* in lowercase
GroupOf(sid, pattern) ==
    {i \in DOMAIN reader.events :
        /\ SessionOrUnknown(reader.events[i]) = sid
        /\ FrictionKey(reader.events[i].query) = pattern}

SessionsLoaded == {SessionOrUnknown(reader.events[i]) : i \in DOMAIN reader.events}

PatternsLoaded == {FrictionKey(reader.events[i].query) : i \in DOMAIN reader.events}

\* the sum, over the sessions, of the sizes of a pattern's groups of two or more
RECURSIVE QualifyingTotal(_, _)
QualifyingTotal(sids, pattern) ==
    IF sids = {} THEN 0
    ELSE LET sid == CHOOSE x \in sids : TRUE
             size == Cardinality(GroupOf(sid, pattern))
         IN  (IF size >= 2 THEN size ELSE 0) + QualifyingTotal(sids \ {sid}, pattern)

FrictionPatterns == {p \in PatternsLoaded : QualifyingTotal(SessionsLoaded, p) > 0}

\* the loaded events are those of scenario S4
TwoSessionsTwice ==
    /\ Len(reader.events) = 4
    /\ {reader.events[i].query : i \in DOMAIN reader.events} = {AlphaBetaGamma}
    /\ Cardinality({reader.events[i].session_id : i \in DOMAIN reader.events}) = 2
    /\ \A sid \in SessionsLoaded : Cardinality(GroupOf(sid, AlphaBetaGamma)) = 2

\* C18: the friction line names only patterns repeated within a session (the events
\* of no session counting as one session), each with the sum of the sizes of its
\* groups of two or more over the sessions, names all of them when they are at most
\* five, in non-increasing order of total; the stats line has the number of loaded
\* events, of distinct queries and of distinct sessions; for two sessions with
\* "alpha beta gamma" twice each the lines are alpha beta gamma(4x) and
\* 4ev/1uq/2sess/14d
C18_FrictionAndStats ==
    Mirrored =>
        LET friction == reader.out.friction
            stats == reader.out.stats
        IN  /\ \A r \in DOMAIN friction :
                   /\ friction[r].pattern \in FrictionPatterns
                   /\ friction[r].total_repeats
                        = QualifyingTotal(SessionsLoaded, friction[r].pattern)
            /\ \A r, q \in DOMAIN friction :
                   r < q => /\ friction[r].total_repeats >= friction[q].total_repeats
                            /\ friction[r].pattern # friction[q].pattern
            /\ Len(friction) = Min(FrictionShown, Cardinality(FrictionPatterns))
            /\ stats.ev = Len(reader.events)
            /\ stats.uq = Cardinality({reader.events[i].query : i \in DOMAIN reader.events})
            /\ stats.sess = Cardinality({reader.events[i].session_id :
                                            i \in DOMAIN reader.events} \ {None})
            /\ stats.days = 14
            /\ TwoSessionsTwice =>
                   /\ friction = << [pattern |-> AlphaBetaGamma, total_repeats |-> 4] >>
                   /\ stats = [ev |-> 4, uq |-> 1, sess |-> 2, days |-> 14]

\* the Mirror has analysed scenario S4
C18_Witness == Mirrored /\ TwoSessionsTwice
\* the accesses of a chunk key by the events of the window: the result records
\* naming it in the loaded events
WindowAccesses(key) ==
    SumSeq([i \in DOMAIN reader.events |->
               Cardinality({j \in DOMAIN reader.events[i].results :
                               ChunkKeyOf(reader.events[i].results[j]) = key})])

\* C19: the hot list shows each chunk with the number of its accesses by events of
\* the window, in non-increasing order of that number, and no chunk the window's
\* events never accessed
C19_HotWithinWindow ==
    Mirrored =>
        LET hot == reader.out.hot
        IN  /\ \A r \in DOMAIN hot :
                   /\ hot[r].accesses = WindowAccesses(hot[r].key)
                   /\ WindowAccesses(hot[r].key) >= 1
            /\ \A r, q \in DOMAIN hot :
                   r < q => WindowAccesses(hot[r].key) >= WindowAccesses(hot[q].key)
(***************************************************************************)
(* The footprint of the write-back (SpecEngine).                           *)
(***************************************************************************)
\* the chunk ids having an embedding row in a Vector Store
EmbeddedIds(store) == {store.chunk_embeddings[i].chunk_id : i \in DOMAIN store.chunk_embeddings}

\* the number of embedding rows of a chunk id
RowsOf(store, id) ==
    Cardinality({i \in DOMAIN store.chunk_embeddings : store.chunk_embeddings[i].chunk_id = id})

====
